---------------------------- MODULE Spec2Model ----------------------------
(***************************************************************************)
(* A model of wasip1/net_wasip1.go: the conversion between net.Addr values *)
(* and raw socket addresses (family, socketAddress, sockaddrTo*Addr), the  *)
(* connection wrapper makeConn with its conn overlay, and the resolver     *)
(* dial hook installed by init.                                            *)
(***************************************************************************)
EXTENDS Integers, Sequences, FiniteSets, TLC

(* ----------------------------- bounds ---------------------------------- *)

\* The last octet of the sample addresses ranges over 0..MaxOctet.
MaxOctet == 1
\* Ports range over 0..MaxPort.
MaxPort == 1
\* Concurrent callers of the overlay's methods.
NumThreads == 2
\* Close calls counted on the underlying connection.
MaxCloses == 2

(* ------------------------- net.IP and net.Addr ------------------------- *)

IPv4len == 4
IPv6len == 16

\* A nil net.IP; a nil slice has length 0.
NilIP == << >>

Zeros(n) == [i \in 1..n |-> 0]

Octets == 0..MaxOctet

\* Sample net.IP values: native 4-byte, IPv4-mapped 16-byte, proper IPv6,
\* 16-byte values that just miss the IPv4-mapped prefix, and slices of a
\* length that is neither 4 nor 16.
IPs ==
    UNION { { <<192, 0, 2, a>>,
              Zeros(10) \o <<255, 255, 192, 0, 2, a>>,
              <<32, 1, 13, 184>> \o Zeros(11) \o <<a>>,
              Zeros(10) \o <<255, 254, 192, 0, 2, a>>,
              <<a + 1>> \o Zeros(9) \o <<255, 255, 192, 0, 2, 1>>,
              <<a>>,
              <<192, 0, 2, a, 0>> } : a \in Octets }
    \cup { NilIP, Zeros(16) }

Ports == 0..MaxPort

Zones == {"", "eth0"}

Names == {"", "/tmp/sock"}

UnixNets == {"unix", "unixgram", "unixpacket"}

\* A nil net.Addr interface value.
NilAddr == [type |-> "nil"]

UnixAddr(net, name) == [type |-> "UnixAddr", Net |-> net, Name |-> name]
TCPAddr(ip, port, zone) == [type |-> "TCPAddr", IP |-> ip, Port |-> port, Zone |-> zone]
UDPAddr(ip, port, zone) == [type |-> "UDPAddr", IP |-> ip, Port |-> port, Zone |-> zone]
IPAddr(ip, zone) == [type |-> "IPAddr", IP |-> ip, Zone |-> zone]
\* The package's own netAddr type: a net.Addr that is none of the above.
netAddr(network, address) == [type |-> "netAddr", network |-> network, address |-> address]

Addrs ==
    { UnixAddr(n, p) : n \in UnixNets, p \in Names }
    \cup { TCPAddr(ip, p, z) : ip \in IPs, p \in Ports, z \in Zones }
    \cup { UDPAddr(ip, p, z) : ip \in IPs, p \in Ports, z \in Zones }
    \cup { IPAddr(ip, z) : ip \in IPs, z \in Zones }
    \cup { netAddr("tcp", "example.com:80") }

\* net.IP.To4: the 4-byte form of ip, or nil when it has none.
To4(ip) ==
    IF Len(ip) = IPv4len THEN ip
    ELSE IF /\ Len(ip) = IPv6len
            /\ \A i \in 1..10 : ip[i] = 0
            /\ ip[11] = 255
            /\ ip[12] = 255
         THEN SubSeq(ip, 13, 16)
         ELSE NilIP

(* ------------------------------ sockaddr ------------------------------- *)

NilSockaddr == [tag |-> "nil"]
sockaddrInet4(addr, port) == [tag |-> "sockaddrInet4", addr |-> addr, port |-> port]
sockaddrInet6(addr, port) == [tag |-> "sockaddrInet6", addr |-> addr, port |-> port]
sockaddrUnix(name) == [tag |-> "sockaddrUnix", name |-> name]

NilErr == "nil"
ErrUnsupportedAddr == "AddrError: unsupported address type"

\* The net.IP the type switch of family and socketAddress selects: the IP
\* field of a TCP, UDP or IP address, and the zero value (nil) otherwise.
SwitchIP(addr) ==
    IF addr.type \in {"TCPAddr", "UDPAddr", "IPAddr"} THEN addr.IP ELSE NilIP

\* The port the type switch of socketAddress selects.
SwitchPort(addr) ==
    IF addr.type \in {"TCPAddr", "UDPAddr"} THEN addr.Port ELSE 0

\* A family that looks at the length of the slice before its 4-byte form.
family_LengthFirst(addr) ==
    IF addr.type = "UnixAddr" THEN "AF_UNIX"
    ELSE IF Len(SwitchIP(addr)) = IPv6len THEN "AF_INET6"
    ELSE "AF_INET"

family(addr) ==
    IF addr.type = "UnixAddr" THEN "AF_UNIX"
    ELSE IF To4(SwitchIP(addr)) # NilIP THEN "AF_INET"
    ELSE IF Len(SwitchIP(addr)) = IPv6len THEN "AF_INET6"
    ELSE "AF_INET"

\* A socketAddress that takes only 4-byte slices for IPv4.
socketAddress_NoMappedForm(addr) ==
    IF addr.type = "UnixAddr"
    THEN [sa |-> sockaddrUnix(addr.Name), err |-> NilErr]
    ELSE IF Len(SwitchIP(addr)) = IPv4len
    THEN [sa |-> sockaddrInet4(SwitchIP(addr), SwitchPort(addr)), err |-> NilErr]
    ELSE IF Len(SwitchIP(addr)) = IPv6len
    THEN [sa |-> sockaddrInet6(SwitchIP(addr), SwitchPort(addr)), err |-> NilErr]
    ELSE [sa |-> NilSockaddr, err |-> ErrUnsupportedAddr]

\* socketAddress returns (sockaddr, error).
socketAddress(addr) ==
    IF addr.type = "UnixAddr"
    THEN [sa |-> sockaddrUnix(addr.Name), err |-> NilErr]
    ELSE IF To4(SwitchIP(addr)) # NilIP
    THEN [sa |-> sockaddrInet4(To4(SwitchIP(addr)), SwitchPort(addr)), err |-> NilErr]
    ELSE IF Len(SwitchIP(addr)) = IPv6len
    THEN [sa |-> sockaddrInet6(SwitchIP(addr), SwitchPort(addr)), err |-> NilErr]
    ELSE [sa |-> NilSockaddr, err |-> ErrUnsupportedAddr]

sockaddrToUnixAddr(sa) ==
    IF sa.tag = "sockaddrUnix" THEN UnixAddr("unix", sa.name) ELSE NilAddr

\* A sockaddrIPAndPort whose type switch lacks the sockaddrInet6 case.
sockaddrIPAndPort_Inet4Only(sa) ==
    IF sa.tag = "sockaddrInet4"
    THEN [ip |-> sa.addr, port |-> sa.port]
    ELSE [ip |-> NilIP, port |-> 0]

\* sockaddrIPAndPort returns (net.IP, int).
sockaddrIPAndPort(sa) ==
    IF sa.tag \in {"sockaddrInet4", "sockaddrInet6"}
    THEN [ip |-> sa.addr, port |-> sa.port]
    ELSE [ip |-> NilIP, port |-> 0]

sockaddrToTCPAddr(sa) ==
    TCPAddr(sockaddrIPAndPort(sa).ip, sockaddrIPAndPort(sa).port, "")

sockaddrToUDPAddr(sa) ==
    UDPAddr(sockaddrIPAndPort(sa).ip, sockaddrIPAndPort(sa).port, "")


(* ------------------------------- state --------------------------------- *)

VARIABLES
    \* conversions: the net.Addr last handed to family and socketAddress, their
    \* results, and the last decode of the resulting sockaddr
    cAddr, cFamily, cEnc, cKind, cDec,
    \* makeConn: its position, its argument c, its locals and its result
    pc, c, err, addr, peer, laddr, raddr, ret,
    \* the socket behind c: whether its descriptor is still open, the
    \* getsockname and getpeername calls issued on it, the Close calls on c
    fdOpen, nGetsockname, nGetpeername, closeCount,
    \* the last method call on the returned overlay
    lastCall,
    \* process-wide hooks set by init, and the last resolver dial attempt
    resolverDial, httpDialContext, resolveCall

codecVars == <<cAddr, cFamily, cEnc, cKind, cDec>>
connVars == <<pc, c, err, addr, peer, laddr, raddr, ret>>
sockVars == <<fdOpen, nGetsockname, nGetpeername, closeCount>>
hookVars == <<resolverDial, httpDialContext>>
vars == <<codecVars, connVars, sockVars, lastCall, hookVars, resolveCall>>

(* ----------------------------- connections ----------------------------- *)

NilConn == [type |-> "nil"]

\* Concrete kinds of net.Conn handed to makeConn: the three kinds of its type
\* switch, a socket-backed kind outside the switch, and a kind that does not
\* implement syscall.Conn.
ConnTypes == {"TCPConn", "UDPConn", "UnixConn", "IPConn", "pipe"}

\* A type assertion that lets every connection through.
IsSyscallConn_Always(cn) == cn.type \in ConnTypes

IsSyscallConn(cn) == cn.type \in {"TCPConn", "UDPConn", "UnixConn", "IPConn"}

\* The conn struct: the embedded net.Conn plus the two stored addresses.
conn(cn, la, ra) == [type |-> "conn", Conn |-> cn, laddr |-> la, raddr |-> ra]

ErrSyscallConn == "SyscallConn: EINVAL"
ErrControl == "raw-control: use of closed network connection"
ErrGetsockname == "getsockname: EBADF"
ErrGetpeername == "getpeername: ENOTCONN"
ErrClosed == "use of closed network connection"

\* What getsockname and getpeername may hand back for an open socket.
RawSockaddrs ==
    { sockaddrInet4(<<192, 0, 2, a>>, p) : a \in Octets, p \in Ports }
    \cup { sockaddrInet6(<<32, 1, 13, 184>> \o Zeros(11) \o <<1>>, p) : p \in Ports }
    \cup { sockaddrUnix(n) : n \in Names }

\* The result of a name query: a sockaddr and an error.
QueryResults(failure) ==
    { [sa |-> NilSockaddr, err |-> failure] }
    \cup (IF fdOpen THEN { [sa |-> s, err |-> NilErr] : s \in RawSockaddrs } ELSE {})

\* A dispatch on the variant of the sockaddr instead of the kind of c.
DecodeFor_BySockaddrTag(cn, sa) ==
    IF sa.tag = "sockaddrUnix" THEN sockaddrToUnixAddr(sa)
    ELSE IF cn.type = "UDPConn" THEN sockaddrToUDPAddr(sa)
    ELSE sockaddrToTCPAddr(sa)

\* The decoder the type switch on c picks (lines 135-145); no case matches
\* any other kind, which leaves the address nil.
DecodeFor(cn, sa) ==
    IF cn.type = "UnixConn" THEN sockaddrToUnixAddr(sa)
    ELSE IF cn.type = "UDPConn" THEN sockaddrToUDPAddr(sa)
    ELSE IF cn.type = "TCPConn" THEN sockaddrToTCPAddr(sa)
    ELSE NilAddr

(* ------------------------------ resolver ------------------------------- *)

ErrResolverNotSupported == "net.Resolver not supported on GOOS=wasip1"

\* A hook that hands the dial on and returns a connection.
dialResolverNotSupported_Dials(network, address) ==
    [conn |-> [type |-> "UDPConn"], err |-> NilErr]

\* dialResolverNotSupported returns (net.Conn, error).
dialResolverNotSupported(network, address) ==
    [conn |-> NilConn, err |-> ErrResolverNotSupported]

Networks == {"udp", "tcp"}
Hosts == {"8.8.8.8:53", "[2001:db8::1]:53"}

NoCall == [op |-> "none"]

(* -------------------------------- Init --------------------------------- *)

\* The state once the package's init has run and nothing was called yet.
Init ==
    /\ cAddr = NilAddr
    /\ cFamily = "none"
    /\ cEnc = [sa |-> NilSockaddr, err |-> NilErr]
    /\ cKind = "none"
    /\ cDec = NilAddr
    /\ pc = "idle"
    /\ c = NilConn
    /\ err = NilErr
    /\ addr = NilSockaddr
    /\ peer = NilSockaddr
    /\ laddr = NilAddr
    /\ raddr = NilAddr
    /\ ret = [conn |-> NilConn, err |-> NilErr]
    /\ fdOpen = TRUE
    /\ nGetsockname = 0
    /\ nGetpeername = 0
    /\ closeCount = 0
    /\ lastCall = NoCall
    /\ resolverDial = "dialResolverNotSupported"
    /\ httpDialContext = "DialContext"
    /\ resolveCall = NoCall

(* ------------------------------ makeConn ------------------------------- *)

\* c.Close(): one more Close call on c, and the descriptor is gone.
CloseConn ==
    /\ closeCount' = closeCount + 1
    /\ fdOpen' = FALSE

\* Lines 114-123: the type assertion and SyscallConn().
MakeConnEnter(cn, scErr) ==
    /\ pc = "idle"
    /\ c' = cn
    /\ IF ~IsSyscallConn(cn)
       THEN /\ ret' = [conn |-> cn, err |-> NilErr]
            /\ pc' = "done"
            /\ UNCHANGED <<err, fdOpen, closeCount>>
       ELSE IF scErr # NilErr
       THEN /\ err' = scErr
            /\ CloseConn
            /\ ret' = [conn |-> NilConn, err |-> scErr]
            /\ pc' = "done"
       ELSE /\ pc' = "control"
            /\ UNCHANGED <<err, ret, fdOpen, closeCount>>
    /\ UNCHANGED <<addr, peer, laddr, raddr, nGetsockname, nGetpeername>>
    /\ UNCHANGED <<codecVars, lastCall, hookVars, resolveCall>>

\* A finish that returns the error without closing c.
MakeConnFinish_NoClose(rawConnErr) ==
    LET e == IF err = NilErr THEN rawConnErr ELSE err
    IN  /\ err' = e
        /\ ret' = IF e # NilErr
                  THEN [conn |-> NilConn, err |-> e]
                  ELSE [conn |-> conn(c, laddr, raddr), err |-> NilErr]
        /\ UNCHANGED <<fdOpen, closeCount>>
        /\ pc' = "done"

\* A finish that looks at Control's error alone and forgets the callback's.
MakeConnFinish_RawErrOnly(rawConnErr) ==
    /\ err' = rawConnErr
    /\ IF rawConnErr # NilErr
       THEN /\ CloseConn
            /\ ret' = [conn |-> NilConn, err |-> rawConnErr]
       ELSE /\ ret' = [conn |-> conn(c, laddr, raddr), err |-> NilErr]
            /\ UNCHANGED <<fdOpen, closeCount>>
    /\ pc' = "done"

\* Lines 147-154, given what Control returned.
MakeConnFinish(rawConnErr) ==
    LET e == IF err = NilErr THEN rawConnErr ELSE err
    IN  /\ err' = e
        /\ IF e # NilErr
           THEN /\ CloseConn
                /\ ret' = [conn |-> NilConn, err |-> e]
           ELSE /\ ret' = [conn |-> conn(c, laddr, raddr), err |-> NilErr]
                /\ UNCHANGED <<fdOpen, closeCount>>
        /\ pc' = "done"

\* rawConn.Control fails without running the callback (line 126), and
\* makeConn finishes (lines 147-153).
ControlRefused ==
    /\ pc = "control"
    /\ MakeConnFinish(ErrControl)
    /\ UNCHANGED <<c, addr, peer, laddr, raddr, nGetsockname, nGetpeername>>
    /\ UNCHANGED <<codecVars, lastCall, hookVars, resolveCall>>

\* rawConn.Control runs the callback, which calls getsockname (lines 126-131).
\* A closed descriptor makes Control fail instead.
Getsockname(r) ==
    /\ pc = "control"
    /\ fdOpen
    /\ r \in QueryResults(ErrGetsockname)
    /\ nGetsockname' = nGetsockname + 1
    /\ addr' = r.sa
    /\ err' = r.err
    /\ pc' = IF r.err # NilErr THEN "callbackDone" ELSE "getpeername"
    /\ UNCHANGED <<c, peer, laddr, raddr, ret, fdOpen, nGetpeername, closeCount>>
    /\ UNCHANGED <<codecVars, lastCall, hookVars, resolveCall>>

\* The callback calls getpeername and, when that succeeds, decodes both
\* results by the kind of c (lines 132-145).
Getpeername(r) ==
    /\ pc = "getpeername"
    /\ r \in QueryResults(ErrGetpeername)
    /\ nGetpeername' = nGetpeername + 1
    /\ peer' = r.sa
    /\ err' = r.err
    /\ IF r.err # NilErr
       THEN UNCHANGED <<laddr, raddr>>
       ELSE /\ laddr' = DecodeFor(c, addr)
            /\ raddr' = DecodeFor(c, r.sa)
    /\ pc' = "callbackDone"
    /\ UNCHANGED <<c, addr, ret, fdOpen, nGetsockname, closeCount>>
    /\ UNCHANGED <<codecVars, lastCall, hookVars, resolveCall>>

\* Control returns after the callback ran, and makeConn finishes (lines
\* 146-154). syscall.RawConn is an interface: its Control may report an error
\* of its own even after running the callback.
MakeConnReturn(rawConnErr) ==
    /\ pc = "callbackDone"
    /\ MakeConnFinish(rawConnErr)
    /\ UNCHANGED <<c, addr, peer, laddr, raddr, nGetsockname, nGetpeername>>
    /\ UNCHANGED <<codecVars, lastCall, hookVars, resolveCall>>

\* Another thread closes the socket's descriptor while makeConn is at work.
ConcurrentClose ==
    /\ pc \in {"control", "getpeername"}
    /\ fdOpen
    /\ fdOpen' = FALSE
    /\ UNCHANGED <<connVars, nGetsockname, nGetpeername, closeCount>>
    /\ UNCHANGED <<codecVars, lastCall, hookVars, resolveCall>>

(* ----------------------------- the overlay ----------------------------- *)

Threads == 1..NumThreads

HasOverlay == pc = "done" /\ ret.conn.type = "conn"

\* func (c *conn) LocalAddr() net.Addr
LocalAddrOf(cn) == cn.laddr

\* A RemoteAddr that returns the local address.
RemoteAddrOf_Swapped(cn) == cn.laddr

\* func (c *conn) RemoteAddr() net.Addr
RemoteAddrOf(cn) == cn.raddr

LocalAddr(t) ==
    /\ HasOverlay
    /\ lastCall' = [op |-> "LocalAddr", thread |-> t, ret |-> LocalAddrOf(ret.conn)]
    /\ UNCHANGED <<codecVars, connVars, sockVars, hookVars, resolveCall>>

RemoteAddr(t) ==
    /\ HasOverlay
    /\ lastCall' = [op |-> "RemoteAddr", thread |-> t, ret |-> RemoteAddrOf(ret.conn)]
    /\ UNCHANGED <<codecVars, connVars, sockVars, hookVars, resolveCall>>

\* Read, Write and the deadline setters are promoted from the embedded
\* net.Conn: the call goes to the underlying connection as it is.
PassThrough(t, op) ==
    /\ HasOverlay
    /\ lastCall' = [op |-> op, thread |-> t,
                    ret |-> IF fdOpen THEN NilErr ELSE ErrClosed]
    /\ UNCHANGED <<codecVars, connVars, sockVars, hookVars, resolveCall>>

\* Close is promoted from the embedded net.Conn as well.
Close(t) ==
    /\ HasOverlay
    /\ closeCount < MaxCloses
    /\ lastCall' = [op |-> "Close", thread |-> t,
                    ret |-> IF fdOpen THEN NilErr ELSE ErrClosed]
    /\ CloseConn
    /\ UNCHANGED <<codecVars, connVars, nGetsockname, nGetpeername, hookVars, resolveCall>>

(* --------------------------- the resolver hook ------------------------- *)

\* net.Resolver dials through its Dial hook, which init set.
Resolve(network, address) ==
    /\ resolverDial = "dialResolverNotSupported"
    /\ resolveCall' =
           [op |-> "Dial", network |-> network, address |-> address,
            conn |-> dialResolverNotSupported(network, address).conn,
            err |-> dialResolverNotSupported(network, address).err]
    /\ UNCHANGED <<codecVars, connVars, sockVars, lastCall, hookVars>>

Next ==
    \/ \E cn \in ConnTypes, e \in {NilErr, ErrSyscallConn} :
           MakeConnEnter([type |-> cn], e)
    \/ ControlRefused
    \/ \E r \in QueryResults(ErrGetsockname) : Getsockname(r)
    \/ \E r \in QueryResults(ErrGetpeername) : Getpeername(r)
    \/ \E e \in {NilErr, ErrControl} : MakeConnReturn(e)
    \/ ConcurrentClose
    \/ \E t \in Threads : LocalAddr(t)
    \/ \E t \in Threads : RemoteAddr(t)
    \/ \E t \in Threads, op \in {"Read", "Write", "SetDeadline"} : PassThrough(t, op)
    \/ \E t \in Threads : Close(t)
    \/ \E n \in Networks, a \in Hosts : Resolve(n, a)

Spec == Init /\ [][Next]_vars

(* ----------------------------- conversions ----------------------------- *)

\* family and socketAddress applied to a net.Addr.
Classify(a) ==
    /\ cAddr' = a
    /\ cFamily' = family(a)
    /\ cEnc' = socketAddress(a)
    /\ cKind' = "none"
    /\ cDec' = NilAddr
    /\ UNCHANGED <<connVars, sockVars, lastCall, hookVars, resolveCall>>

DecodeAs(kind, sa) ==
    IF kind = "unix" THEN sockaddrToUnixAddr(sa)
    ELSE IF kind = "udp" THEN sockaddrToUDPAddr(sa)
    ELSE sockaddrToTCPAddr(sa)

\* One of the three decoders applied to the sockaddr socketAddress produced.
Decode(kind) ==
    /\ cEnc.err = NilErr
    /\ cEnc.sa # NilSockaddr
    /\ cKind' = kind
    /\ cDec' = DecodeAs(kind, cEnc.sa)
    /\ UNCHANGED <<cAddr, cFamily, cEnc>>
    /\ UNCHANGED <<connVars, sockVars, lastCall, hookVars, resolveCall>>

NextCodec ==
    \/ \E a \in Addrs : Classify(a)
    \/ \E k \in {"unix", "udp", "tcp"} : Decode(k)

SpecCodec == Init /\ [][NextCodec]_vars

(* ------------------------- properties: makeConn ------------------------ *)

\* makeConn has returned an error for a connection that implements syscall.Conn.
WrapFailed == pc = "done" /\ c.type # "pipe" /\ (err # NilErr \/ ret.err # NilErr)

\* C1: whenever makeConn fails for a connection with raw-descriptor access
\* (SyscallConn, getsockname, getpeername or Control failed), Close was called
\* on the underlying connection exactly once, the result is nil plus that
\* error, and no Close happens while makeConn is still at work.
C1_CloseOnceOnFailure ==
    /\ WrapFailed =>
           /\ closeCount = 1
           /\ ret.conn = NilConn
           /\ ret.err = err
           /\ ret.err \in {ErrSyscallConn, ErrGetsockname, ErrGetpeername, ErrControl}
    /\ pc \in {"control", "getpeername", "callbackDone"} => closeCount = 0

\* C1 witness: a wrap that failed because Control itself reported an error
\* after both queries had succeeded.
C1_Witness ==
    /\ pc = "done"
    /\ ret.err = ErrControl
    /\ peer # NilSockaddr
    /\ closeCount = 1

\* The peer-name query failed after the local-name query had succeeded.
PeerFailedAfterLocal ==
    /\ nGetsockname = 1
    /\ nGetpeername = 1
    /\ addr # NilSockaddr
    /\ peer = NilSockaddr

\* C4: when getpeername fails after getsockname succeeded, makeConn reports
\* that failure, returns no overlay, and the local address it had obtained
\* is decoded nowhere and reaches no caller.
C4_PeerFailureIsClean ==
    (PeerFailedAfterLocal /\ pc \in {"callbackDone", "done"}) =>
        /\ err = ErrGetpeername
        /\ laddr = NilAddr
        /\ raddr = NilAddr
        /\ lastCall = NoCall
        /\ pc = "done" => ret = [conn |-> NilConn, err |-> ErrGetpeername]

\* C4 witness: the descriptor was closed by another thread between the two
\* queries, and makeConn has returned.
C4_Witness ==
    /\ PeerFailedAfterLocal
    /\ pc = "done"
    /\ ret.err = ErrGetpeername

\* C7: a connection without raw-descriptor access comes back from makeConn as
\* it is, with a nil error, not closed and never queried.
C7_NonSyscallConnUnchanged ==
    (pc # "idle" /\ c.type = "pipe") =>
        /\ pc = "done"
        /\ ret = [conn |-> c, err |-> NilErr]
        /\ closeCount = 0
        /\ fdOpen
        /\ nGetsockname = 0
        /\ nGetpeername = 0

\* C7 witness: makeConn has returned for a connection that is no syscall.Conn.
C7_Witness == pc = "done" /\ c.type = "pipe" /\ ret.conn.type = "pipe"

\* C9: once makeConn has returned an overlay, its two addresses are the ones
\* makeConn decoded (its locals laddr and raddr), LocalAddr and RemoteAddr return exactly those
\* whatever calls were made on the overlay by whichever caller, and each name
\* query has been issued once and never again.
C9_AddressesResolvedOnce ==
    HasOverlay =>
        /\ ret.conn.laddr = laddr
        /\ ret.conn.raddr = raddr
        /\ lastCall.op = "LocalAddr" => lastCall.ret = laddr
        /\ lastCall.op = "RemoteAddr" => lastCall.ret = raddr
        /\ nGetsockname = 1
        /\ nGetpeername = 1

\* C9 witness: RemoteAddr called by the second caller after the underlying
\* connection was closed through the overlay, with distinct local and remote
\* addresses stored.
C9_Witness ==
    /\ HasOverlay
    /\ lastCall.op = "RemoteAddr"
    /\ lastCall.thread = 2
    /\ closeCount = 1
    /\ ret.conn.laddr # ret.conn.raddr
    /\ ret.conn.raddr # NilAddr

\* C10 as stated: in a successful wrap a unix connection reports unix
\* addresses, a TCP connection TCP addresses and a UDP connection UDP
\* addresses, whatever sockaddr variants the two queries returned.
C10_KindAlwaysReported ==
    HasOverlay =>
        /\ c.type = "UnixConn" =>
               ret.conn.laddr.type = "UnixAddr" /\ ret.conn.raddr.type = "UnixAddr"
        /\ c.type = "TCPConn" =>
               ret.conn.laddr.type = "TCPAddr" /\ ret.conn.raddr.type = "TCPAddr"
        /\ c.type = "UDPConn" =>
               ret.conn.laddr.type = "UDPAddr" /\ ret.conn.raddr.type = "UDPAddr"

\* The unix address a unix connection reports for a query result: the path of
\* a sockaddrUnix, and nothing for any other variant.
UnixReport(sa) ==
    IF sa.tag = "sockaddrUnix"
    THEN [type |-> "UnixAddr", Net |-> "unix", Name |-> sa.name]
    ELSE NilAddr

\* C10 amended: the decoder is picked by the kind of the connection alone. A
\* TCP connection reports TCP addresses and a UDP connection UDP addresses for
\* every sockaddr variant; a unix connection reports a unix address for a
\* sockaddrUnix and a nil address, never an IP address, for any other variant.
C10_DecoderByConnKind ==
    HasOverlay =>
        /\ c.type = "UnixConn" =>
               ret.conn.laddr = UnixReport(addr) /\ ret.conn.raddr = UnixReport(peer)
        /\ c.type = "TCPConn" =>
               ret.conn.laddr.type = "TCPAddr" /\ ret.conn.raddr.type = "TCPAddr"
        /\ c.type = "UDPConn" =>
               ret.conn.laddr.type = "UDPAddr" /\ ret.conn.raddr.type = "UDPAddr"

\* C10 witness: a TCP connection whose local name came back as a sockaddrUnix
\* and whose peer name as a sockaddrInet6.
C10_Witness ==
    /\ HasOverlay
    /\ c.type = "TCPConn"
    /\ addr.tag = "sockaddrUnix"
    /\ peer.tag = "sockaddrInet6"

(* ------------------------- properties: resolver ------------------------ *)

\* C6: with the hook installed, every dial attempt of the resolver, for every
\* network and address and in whatever state, yields a nil connection and the
\* "not supported" error, issues no name query and opens or closes no
\* connection; and the hook stays installed.
C6_ResolverNeverDials ==
    [][ /\ resolverDial' = "dialResolverNotSupported"
        /\ resolveCall' # resolveCall =>
               /\ resolveCall'.conn = NilConn
               /\ resolveCall'.err = ErrResolverNotSupported
               /\ UNCHANGED <<connVars, sockVars, lastCall>> ]_vars

\* C6 witness: a resolver dial attempted while an overlay is in use.
C6_Witness ==
    /\ resolveCall # NoCall
    /\ resolveCall.network = "udp"
    /\ HasOverlay
    /\ fdOpen

(* ------------------------ properties: conversions ---------------------- *)

\* The address is a 16-byte IPv4-mapped value (::ffff:a.b.c.d).
IsV4Mapped(ip) ==
    /\ Len(ip) = 16
    /\ \A i \in 1..10 : ip[i] = 0
    /\ ip[11] = 255 /\ ip[12] = 255

IsIPv4(ip) == Len(ip) = 4 \/ IsV4Mapped(ip)
IsIPv6(ip) == Len(ip) = 16 /\ ~IsV4Mapped(ip)

IsIPEndpoint(a) == a.type \in {"TCPAddr", "UDPAddr", "IPAddr"}

\* C2 as stated: a sockaddrUnix decoded as a TCP or UDP address, and a
\* sockaddrInet4 or sockaddrInet6 decoded as a unix address, is a nil address.
C2_CrossFamilyIsNil ==
    /\ (cKind \in {"tcp", "udp"} /\ cEnc.sa.tag = "sockaddrUnix") => cDec = NilAddr
    /\ (cKind = "unix" /\ cEnc.sa.tag \in {"sockaddrInet4", "sockaddrInet6"}) =>
           cDec = NilAddr

\* C5: family is AF_UNIX for a unix address; for an IP endpoint (TCP, UDP or
\* raw IP) it is AF_INET when the address has a 4-byte form, in a 4-byte or in
\* a 16-byte container, and when the address is absent, and it is AF_INET6
\* exactly for the 16-byte addresses with no 4-byte form.
C5_FamilyClassification ==
    cAddr # NilAddr =>
        /\ cAddr.type = "UnixAddr" => cFamily = "AF_UNIX"
        /\ IsIPEndpoint(cAddr) =>
               /\ IsIPv4(cAddr.IP) => cFamily = "AF_INET"
               /\ Len(cAddr.IP) = 0 => cFamily = "AF_INET"
               /\ cFamily = "AF_INET6" <=> IsIPv6(cAddr.IP)
               /\ cFamily \in {"AF_INET", "AF_INET6"}

\* C5 witness: family applied to a UDP address holding an IPv4 address in a
\* 16-byte container.
C5_Witness ==
    /\ cAddr.type = "UDPAddr"
    /\ IsV4Mapped(cAddr.IP)
    /\ cFamily = "AF_INET"

\* C8: socketAddress turns a unix address into sockaddrUnix{name}; an IP
\* endpoint whose address has a 4-byte form into sockaddrInet4 with those 4
\* bytes and the port; one whose address is 16 bytes with no 4-byte form into
\* sockaddrInet6 with those 16 bytes and the port; and fails with the
\* unsupported-address error and a nil sockaddr for every other address.
C8_Encode ==
    cAddr # NilAddr =>
        LET port == IF cAddr.type = "IPAddr" THEN 0 ELSE cAddr.Port
        IN  /\ cAddr.type = "UnixAddr" =>
                   cEnc = [sa |-> [tag |-> "sockaddrUnix", name |-> cAddr.Name],
                           err |-> NilErr]
            /\ (IsIPEndpoint(cAddr) /\ Len(cAddr.IP) = 4) =>
                   cEnc = [sa |-> [tag |-> "sockaddrInet4", addr |-> cAddr.IP,
                                   port |-> port],
                           err |-> NilErr]
            /\ (IsIPEndpoint(cAddr) /\ IsV4Mapped(cAddr.IP)) =>
                   cEnc = [sa |-> [tag |-> "sockaddrInet4",
                                   addr |-> SubSeq(cAddr.IP, 13, 16), port |-> port],
                           err |-> NilErr]
            /\ (IsIPEndpoint(cAddr) /\ IsIPv6(cAddr.IP)) =>
                   cEnc = [sa |-> [tag |-> "sockaddrInet6", addr |-> cAddr.IP,
                                   port |-> port],
                           err |-> NilErr]
            /\ (IsIPEndpoint(cAddr) /\ ~IsIPv4(cAddr.IP) /\ ~IsIPv6(cAddr.IP)) =>
                   cEnc = [sa |-> NilSockaddr, err |-> ErrUnsupportedAddr]
            /\ cAddr.type = "netAddr" =>
                   cEnc = [sa |-> NilSockaddr, err |-> ErrUnsupportedAddr]

\* C8 witness: socketAddress refused a TCP address whose IP is 5 bytes long.
C8_Witness ==
    /\ cAddr.type = "TCPAddr"
    /\ Len(cAddr.IP) = 5
    /\ cEnc.err = ErrUnsupportedAddr

\* The endpoints the round trip is claimed for: TCP and UDP addresses holding
\* an IPv4 or IPv6 address, and unix addresses of the stream or datagram
\* network.
IsRoundTripEndpoint(a) ==
    \/ a.type \in {"TCPAddr", "UDPAddr"} /\ (IsIPv4(a.IP) \/ IsIPv6(a.IP))
    \/ a.type = "UnixAddr" /\ a.Net \in {"unix", "unixgram"}

\* The decoder matching an endpoint's kind.
MatchingKind(a) ==
    IF a.type = "UnixAddr" THEN "unix"
    ELSE IF a.type = "UDPAddr" THEN "udp"
    ELSE "tcp"

\* Equality in address bytes, port, path name and network name.
SameEndpoint(a, b) ==
    /\ a.type = b.type
    /\ IF a.type = "UnixAddr"
       THEN a.Name = b.Name /\ a.Net = b.Net
       ELSE a.IP = b.IP /\ a.Port = b.Port

\* C3 as stated: encoding succeeds for every such endpoint, and decoding the
\* result with the matching decoder gives back the endpoint, equal in address
\* bytes, port, path name and network name.
C3_RoundTrip ==
    IsRoundTripEndpoint(cAddr) =>
        /\ cEnc.err = NilErr
        /\ cKind = MatchingKind(cAddr) => SameEndpoint(cDec, cAddr)

\* C3 amended: encoding succeeds for every such endpoint. The round trip gives
\* back the endpoint itself when it is an IPv4 address in a 4-byte container,
\* an IPv6 address, or a unix address of network "unix". An IPv4 address in a
\* 16-byte container comes back with the same port and its 4-byte form; a unix
\* address of network "unixgram" comes back with the same path and network
\* "unix".
C3_RoundTripNormalised ==
    IsRoundTripEndpoint(cAddr) =>
        /\ cEnc.err = NilErr
        /\ cKind = MatchingKind(cAddr) =>
               /\ cDec.type = cAddr.type
               /\ cAddr.type = "UnixAddr" =>
                      cDec.Name = cAddr.Name /\ cDec.Net = "unix"
               /\ cAddr.type # "UnixAddr" =>
                      /\ cDec.Port = cAddr.Port
                      /\ cDec.IP = IF IsV4Mapped(cAddr.IP)
                                   THEN SubSeq(cAddr.IP, 13, 16)
                                   ELSE cAddr.IP
               /\ (cAddr.type = "UnixAddr" /\ cAddr.Net = "unix") =>
                      SameEndpoint(cDec, cAddr)
               /\ (cAddr.type # "UnixAddr" /\ ~IsV4Mapped(cAddr.IP)) =>
                      SameEndpoint(cDec, cAddr)

\* C3 witness: an IPv6 UDP address with a non-zero port encoded and decoded
\* back by the UDP decoder.
C3_Witness ==
    /\ cAddr.type = "UDPAddr"
    /\ IsIPv6(cAddr.IP)
    /\ cAddr.Port = 1
    /\ cKind = "udp"
    /\ cDec.IP = cAddr.IP

=============================================================================
